---------------------------- MODULE Spec2Model ----------------------------
(***************************************************************************)
(* Model of make_arrow (src/main.rs): extract() reads the alignment        *)
(* records of a BAM/CRAM file, drops unmapped and secondary records,       *)
(* computes four metrics per remaining record and hands the four columns   *)
(* to save_as_arrow(), which writes them to an Arrow IPC file.             *)
(*                                                                         *)
(* Floating point values are modelled as exact rationals [num, den] in     *)
(* lowest terms; den = 0 encodes the IEEE specials (num = 0: NaN,          *)
(* num = 1: +inf, num = -1: -inf).  Rounding is not modelled.              *)
(***************************************************************************)
EXTENDS Integers, Sequences, FiniteSets, TLC

VARIABLES
    input,            \* the records the reader yields, in stream order
    overflow_checks,  \* build profile: TRUE = integer overflow panics
    pos,              \* number of items taken from bam.rc_records()
    lengths,          \* Vec<u64>
    aligned_lengths,  \* Vec<u64>
    identities,       \* Vec<f64>
    mapqs,            \* Vec<u8>
    calls,            \* stream positions handed to gap_compressed_identity
    pc,               \* where the process is
    panic,            \* panic message, "" while the process is alive
    batch,            \* the RecordBatch built by save_as_arrow
    file              \* the output file on disk

vars == << input, overflow_checks, pos, lengths, aligned_lengths, identities,
           mapqs, calls, pc, panic, batch, file >>

---------------------------------------------------------------------------
(* Bounds of the model *)

\* longest input stream
MaxStream == 3

\* most CIGAR operations of a record in the single-record inputs
MaxCigarOps == 2

---------------------------------------------------------------------------
(* Program constants *)

\* htslib flag bits used by the filter
BAM_FUNMAP == 4

BAM_FSECONDARY == 256

\* The accumulators and the NM tag are u32.  TLC integers are 32-bit signed,
\* so the modulus of the unsigned type is scaled down to 2^24; every length
\* and tag value of the model is far below it, so the wrap-arounds the model
\* reaches are those the u32 arithmetic has on the same inputs.
U32Modulus == 2^24

---------------------------------------------------------------------------
(* Integer helpers *)

RECURSIVE BitAnd(_, _)
BitAnd(a, b) ==
    IF a = 0 \/ b = 0 THEN 0
    ELSE (IF a % 2 = 1 /\ b % 2 = 1 THEN 1 ELSE 0)
         + 2 * BitAnd(a \div 2, b \div 2)

RECURSIVE BitOr(_, _)
BitOr(a, b) ==
    IF a = 0 THEN b
    ELSE IF b = 0 THEN a
    ELSE (IF a % 2 = 1 \/ b % 2 = 1 THEN 1 ELSE 0)
         + 2 * BitOr(a \div 2, b \div 2)

RECURSIVE GCD(_, _)
GCD(a, b) == IF b = 0 THEN a ELSE GCD(b, a % b)

Abs(n) == IF n < 0 THEN -n ELSE n

---------------------------------------------------------------------------
(* Floating point values as exact rationals *)

Rat(n, d) ==
    LET g == GCD(Abs(n), d)
    IN  [num |-> n \div g, den |-> d \div g]

NaN == [num |-> 0, den |-> 0]

PosInf == [num |-> 1, den |-> 0]

NegInf == [num |-> -1, den |-> 0]

IsFinite(x) == x.den # 0

\* 1.0 - x
OneMinus(x) ==
    IF x.den = 0 THEN [num |-> -x.num, den |-> 0]
    ELSE Rat(x.den - x.num, x.den)

\* 100.0 * x  (also x * 100.0)
Times100(x) ==
    IF x.den = 0 THEN x ELSE Rat(100 * x.num, x.den)

\* a as f64 / b as f64, for a, b unsigned integers
FloatDiv(a, b) ==
    IF b = 0 THEN (IF a = 0 THEN NaN ELSE PosInf)
    ELSE Rat(a, b)

\* lo <= x <= hi for a float x and integers lo, hi; FALSE for NaN
InRange(x, lo, hi) ==
    /\ x.den # 0
    /\ lo * x.den <= x.num
    /\ x.num <= hi * x.den


---------------------------------------------------------------------------
(* Alignment records *)

\* Aux values: a tag is absent ("none") or carries one typed value
NoTag == [type |-> "none", val |-> 0]

NoDe == [type |-> "none", val |-> NaN]

CigarKinds ==
    {"Match", "Ins", "Del", "RefSkip", "SoftClip", "HardClip", "Pad",
     "Equal", "Diff"}

Op(k, n) == [kind |-> k, len |-> n]

\* an item the reader yielded as Err
Malformed ==
    [ok |-> FALSE, flags |-> 0, seq_len |-> 0, pos |-> 0, cigar |-> << >>,
     mapq |-> 0, de |-> NoDe, nm |-> NoTag]

Record(fl, sl, p, cg, mq, de, nm) ==
    [ok |-> TRUE, flags |-> fl, seq_len |-> sl, pos |-> p, cigar |-> cg,
     mapq |-> mq, de |-> de, nm |-> nm]

\* htslib bam_cigar2rlen: reference bases covered by the CIGAR
RECURSIVE RefLen(_)
RefLen(cigar) ==
    IF cigar = << >> THEN 0
    ELSE (IF Head(cigar).kind \in {"Match", "Del", "RefSkip", "Equal", "Diff"}
          THEN Head(cigar).len ELSE 0) + RefLen(Tail(cigar))

reference_start(read) == read.pos

\* htslib bam_endpos: a record covering no reference base ends at pos + 1
reference_end(read) ==
    read.pos + (IF RefLen(read.cigar) = 0 THEN 1 ELSE RefLen(read.cigar))

---------------------------------------------------------------------------
(* Record Filter *)

\* faulty variant: the mask lacks the secondary bit
KeepUnlessUnmapped(flags) == BitAnd(flags, BAM_FUNMAP) = 0

\* read.flags() & (BAM_FUNMAP | BAM_FSECONDARY) as u16 == 0
Keep(flags) == BitAnd(flags, BitOr(BAM_FUNMAP, BAM_FSECONDARY)) = 0

---------------------------------------------------------------------------
(* Identity Calculator *)

Value(v) == [panic |-> FALSE, msg |-> "", val |-> v]

Panic(m) == [panic |-> TRUE, msg |-> m, val |-> NaN]

\* Option<f32>: [some, val], or a panic
get_de_tag(record) ==
    IF record.de.type = "none" THEN [panic |-> FALSE, some |-> FALSE, val |-> NaN]
    ELSE IF record.de.type = "Float"
    THEN [panic |-> FALSE, some |-> TRUE,
          val |-> Times100(OneMinus(record.de.val))]
    ELSE [panic |-> TRUE, some |-> FALSE, val |-> NaN]

\* u32, or a panic
get_nm_tag(record) ==
    IF record.nm.type = "none"
    THEN [panic |-> TRUE, val |-> 0,
          msg |-> "Unexpected result while trying to access the NM tag"]
    ELSE IF record.nm.type \in {"U8", "U16", "U32"}
    THEN [panic |-> FALSE, val |-> record.nm.val, msg |-> ""]
    ELSE [panic |-> TRUE, val |-> 0, msg |-> "Unexpected type of Aux"]

\* u32 addition and subtraction: the wrapped result and whether it overflowed
Add32(a, b) == [val |-> (a + b) % U32Modulus, ovf |-> a + b >= U32Modulus]

Sub32(a, b) == [val |-> (a - b + U32Modulus) % U32Modulus, ovf |-> a < b]

\* the loop over record.cigar(): the three accumulators, and whether an
\* addition overflowed
RECURSIVE CigarScan(_, _)
CigarScan(cigar, acc) ==
    IF cigar = << >> THEN acc
    ELSE LET entry == Head(cigar)
             next ==
                 IF entry.kind \in {"Match", "Equal", "Diff"}
                 THEN [acc EXCEPT
                         !.matches = Add32(acc.matches, entry.len).val,
                         !.ovf = acc.ovf \/ Add32(acc.matches, entry.len).ovf]
                 ELSE IF entry.kind \in {"Del", "Ins"}
                 THEN [acc EXCEPT
                         !.gap_size = Add32(acc.gap_size, entry.len).val,
                         !.gap_count = Add32(acc.gap_count, 1).val,
                         !.ovf = \/ acc.ovf
                                 \/ Add32(acc.gap_size, entry.len).ovf
                                 \/ Add32(acc.gap_count, 1).ovf]
                 ELSE acc
         IN  CigarScan(Tail(cigar), next)

CigarStats(record) ==
    CigarScan(record.cigar,
              [matches |-> 0, gap_size |-> 0, gap_count |-> 0, ovf |-> FALSE])

OverflowMsg == "arithmetic overflow"

\* the intermediate results of the None arm, in evaluation order:
\* get_nm_tag(record) - gap_size, ... + gap_count, matches + gap_count
FallbackTerms(record) ==
    LET st   == CigarStats(record)
        nm   == get_nm_tag(record)
        diff == Sub32(nm.val, st.gap_size)
    IN  [st |-> st, nm |-> nm, diff |-> diff,
         numr |-> Add32(diff.val, st.gap_count),
         deno |-> Add32(st.matches, st.gap_count)]

\* the None arm of gap_compressed_identity, under a build with (checks) or
\* without overflow checks
FallbackIdentity(record, checks) ==
    LET t == FallbackTerms(record)
    IN  IF checks /\ t.st.ovf THEN Panic(OverflowMsg)
        ELSE IF t.nm.panic THEN Panic(t.nm.msg)
        ELSE IF checks /\ (t.diff.ovf \/ t.numr.ovf \/ t.deno.ovf)
        THEN Panic(OverflowMsg)
        ELSE Value(OneMinus(FloatDiv(t.numr.val, t.deno.val)))

gap_compressed_identity(record, checks) ==
    LET de == get_de_tag(record)
    IN  IF de.panic THEN Panic("Unexpected type of Aux")
        ELSE IF de.some THEN Value(de.val)
        ELSE FallbackIdentity(record, checks)

---------------------------------------------------------------------------
(* Inputs *)

\* a read the fast path serves

ReadA ==
    [seq_len |-> 10, pos |-> 100, cigar |-> << Op("Match", 2), Op("Ins", 2) >>,
     mapq |-> 60, de |-> [type |-> "Float", val |-> Rat(1, 20)],
     nm |-> [type |-> "U8", val |-> 5]]

\* a read the fallback serves
ReadB ==
    [seq_len |-> 7, pos |-> 3,
     cigar |-> << Op("SoftClip", 3), Op("Match", 2), Op("Del", 1), Op("Equal", 1) >>,
     mapq |-> 255, de |-> NoDe, nm |-> [type |-> "U16", val |-> 1]]

\* a read without tags and without CIGAR
ReadC ==
    [seq_len |-> 0, pos |-> 0, cigar |-> << >>,
     mapq |-> 0, de |-> NoDe, nm |-> NoTag]

\* a read whose de tag is not a float
ReadD ==
    [seq_len |-> 5, pos |-> 9, cigar |-> << Op("Match", 5) >>,
     mapq |-> 1, de |-> [type |-> "Double", val |-> Rat(1, 20)],
     nm |-> [type |-> "U8", val |-> 0]]

Flagged(p, fl) == Record(fl, p.seq_len, p.pos, p.cigar, p.mapq, p.de, p.nm)

\* the items of the multi-record streams.  The flag words are the eight
\* combinations of unmapped (4), secondary (256) and a bit the filter
\* ignores (supplementary, 2048): read A under six of them, read B as a
\* primary mapped record, the reads the calculator fails on as kept and as
\* excluded records, and an undecodable item
StreamItems ==
    {Flagged(ReadA, fl) : fl \in {0, 4, 256, 260, 2048, 2308}}
        \cup {Flagged(ReadB, 0)}
        \cup {Flagged(ReadC, fl) : fl \in {0, 2052}}
        \cup {Flagged(ReadD, 2304)}
        \cup {Malformed}

DeTags ==
    {NoDe, [type |-> "Double", val |-> Rat(1, 20)],
     [type |-> "Float", val |-> Rat(1, 20)]}

NmTags ==
    {NoTag, [type |-> "I32", val |-> 5], [type |-> "U8", val |-> 0],
     [type |-> "U8", val |-> 5], [type |-> "U16", val |-> 300],
     [type |-> "U32", val |-> 70000]}

CigarOps ==
    {Op(k, 2) : k \in CigarKinds} \cup {Op(k, 1) : k \in {"Match", "Ins", "Del"}}

RECURSIVE SeqsUpTo(_, _)
SeqsUpTo(S, n) ==
    IF n = 0 THEN {<< >>}
    ELSE LET shorter == SeqsUpTo(S, n - 1)
         IN  shorter \cup {Append(s, x) : s \in shorter, x \in S}

\* 8M 2I 5M 1D 10M
SampleCigar ==
    << Op("Match", 8), Op("Ins", 2), Op("Match", 5), Op("Del", 1),
       Op("Match", 10) >>

\* the records of the single-record streams: mapped primary records over
\* every tag configuration and every short CIGAR
SingleRecords ==
    {Record(0, 4, 0, cg, 60, de, nm) :
        cg \in SeqsUpTo(CigarOps, MaxCigarOps) \cup {SampleCigar},
        de \in DeTags, nm \in NmTags}

Inputs ==
    SeqsUpTo(StreamItems, MaxStream) \cup {<< r >> : r \in SingleRecords}

---------------------------------------------------------------------------
(* The process *)

Absent == [status |-> "absent", batches |-> << >>]

NoBatch ==
    [identities |-> << >>, lengths |-> << >>, aligned_lengths |-> << >>,
     mapQ |-> << >>]

Init ==
    /\ input \in Inputs
    /\ overflow_checks \in BOOLEAN
    /\ pos = 0
    /\ lengths = << >>
    /\ aligned_lengths = << >>
    /\ identities = << >>
    /\ mapqs = << >>
    /\ calls = {}
    /\ pc = "extract"
    /\ panic = ""
    /\ batch = NoBatch
    /\ file = Absent

\* faulty variant: the two u64 fields in each other's place
RowSwapped(read, identity) ==
    [length |-> reference_end(read) - reference_start(read),
     aligned_length |-> read.seq_len,
     identity |-> Times100(identity),
     mapq |-> read.mapq]

\* the tuple the map closure builds for one read
Row(read, identity) ==
    [length |-> read.seq_len,
     aligned_length |-> reference_end(read) - reference_start(read),
     identity |-> Times100(identity),
     mapq |-> read.mapq]

Columns == << lengths, aligned_lengths, identities, mapqs >>

\* a panic ends the process where it stands
Die(msg) ==
    /\ panic' = msg
    /\ pc' = pc

Alive == panic = ""

\* faulty variant: an Err item is dropped and the stream goes on
RecordMalformedSkipped ==
    /\ Alive
    /\ pc = "extract"
    /\ pos < Len(input)
    /\ ~input[pos + 1].ok
    /\ pos' = pos + 1
    /\ UNCHANGED << input, overflow_checks, Columns, calls, pc, panic, batch, file >>

\* r.expect("Failure parsing Bam file") on an Err item
RecordMalformed ==
    /\ Alive
    /\ pc = "extract"
    /\ pos < Len(input)
    /\ ~input[pos + 1].ok
    /\ pos' = pos + 1
    /\ Die("Failure parsing Bam file")
    /\ UNCHANGED << input, overflow_checks, Columns, calls, batch, file >>

\* faulty variant: the metrics are computed before the filter is applied
RecordFilteredLate ==
    /\ Alive
    /\ pc = "extract"
    /\ pos < Len(input)
    /\ input[pos + 1].ok
    /\ ~Keep(input[pos + 1].flags)
    /\ pos' = pos + 1
    /\ calls' = calls \cup {pos + 1}
    /\ LET out == gap_compressed_identity(input[pos + 1], overflow_checks)
       IN  IF out.panic THEN Die(out.msg) ELSE UNCHANGED << pc, panic >>
    /\ UNCHANGED << input, overflow_checks, Columns, batch, file >>

\* the filter rejects the read: nothing else is evaluated for it
RecordFiltered ==
    /\ Alive
    /\ pc = "extract"
    /\ pos < Len(input)
    /\ input[pos + 1].ok
    /\ ~Keep(input[pos + 1].flags)
    /\ pos' = pos + 1
    /\ UNCHANGED << input, overflow_checks, Columns, calls, pc, panic, batch, file >>

\* the read passes the filter and the map closure returns its row
RecordKept ==
    /\ Alive
    /\ pc = "extract"
    /\ pos < Len(input)
    /\ input[pos + 1].ok
    /\ Keep(input[pos + 1].flags)
    /\ LET read == input[pos + 1]
           out  == gap_compressed_identity(read, overflow_checks)
           row  == Row(read, out.val)
       IN  /\ ~out.panic
           /\ lengths' = Append(lengths, row.length)
           /\ aligned_lengths' = Append(aligned_lengths, row.aligned_length)
           /\ identities' = Append(identities, row.identity)
           /\ mapqs' = Append(mapqs, row.mapq)
    /\ pos' = pos + 1
    /\ calls' = calls \cup {pos + 1}
    /\ UNCHANGED << input, overflow_checks, pc, panic, batch, file >>

\* the read passes the filter and the map closure panics
RecordPanics ==
    /\ Alive
    /\ pc = "extract"
    /\ pos < Len(input)
    /\ input[pos + 1].ok
    /\ Keep(input[pos + 1].flags)
    /\ LET out == gap_compressed_identity(input[pos + 1], overflow_checks)
       IN  /\ out.panic
           /\ Die(out.msg)
    /\ pos' = pos + 1
    /\ calls' = calls \cup {pos + 1}
    /\ UNCHANGED << input, overflow_checks, Columns, batch, file >>

\* RecordBatch::try_from_iter of save_as_arrow
MakeBatch(ls, als, ids, mqs) ==
    [identities |-> ids, lengths |-> ls, aligned_lengths |-> als, mapQ |-> mqs]

\* the stream is exhausted: unzip_n_vec returns and save_as_arrow builds the
\* arrays, the batch and the schema
EndOfStream ==
    /\ Alive
    /\ pc = "extract"
    /\ pos = Len(input)
    /\ IF Len(lengths) = Len(identities) /\ Len(aligned_lengths) = Len(identities)
          /\ Len(mapqs) = Len(identities)
       THEN /\ batch' = MakeBatch(lengths, aligned_lengths, identities, mapqs)
            /\ pc' = "create"
            /\ panic' = panic
       ELSE /\ Die("called Result::unwrap() on an Err value")
            /\ batch' = batch
    /\ UNCHANGED << input, overflow_checks, pos, Columns, calls, file >>

\* File::create: creates the file or truncates an existing one
CreateFile ==
    /\ Alive
    /\ pc = "create"
    /\ file' = [status |-> "created", batches |-> << >>]
    /\ pc' = "writer"
    /\ UNCHANGED << input, overflow_checks, pos, Columns, calls, panic, batch >>

\* FileWriter::try_new writes the schema
NewWriter ==
    /\ Alive
    /\ pc = "writer"
    /\ file' = [file EXCEPT !.status = "open"]
    /\ pc' = "write"
    /\ UNCHANGED << input, overflow_checks, pos, Columns, calls, panic, batch >>

\* writer.write(&batch)
WriteBatch ==
    /\ Alive
    /\ pc = "write"
    /\ file' = [file EXCEPT !.batches = Append(file.batches, batch)]
    /\ pc' = "finish"
    /\ UNCHANGED << input, overflow_checks, pos, Columns, calls, panic, batch >>

\* writer.finish()
Finish ==
    /\ Alive
    /\ pc = "finish"
    /\ file' = [file EXCEPT !.status = "finalized"]
    /\ pc' = "done"
    /\ UNCHANGED << input, overflow_checks, pos, Columns, calls, panic, batch >>

\* one of the four I/O calls of save_as_arrow returns Err
IoError ==
    /\ Alive
    /\ pc \in {"create", "writer", "write", "finish"}
    /\ Die(CASE pc = "create" -> "create arrow file error"
             [] pc = "writer" -> "create arrow file writer error"
             [] pc = "write"  -> "write arrow batch error"
             [] pc = "finish" -> "finish write arrow error")
    /\ UNCHANGED << input, overflow_checks, pos, Columns, calls, batch, file >>

Next ==
    \/ RecordMalformed
    \/ RecordFiltered
    \/ RecordKept
    \/ RecordPanics
    \/ EndOfStream
    \/ CreateFile
    \/ NewWriter
    \/ WriteBatch
    \/ Finish
    \/ IoError

Spec == Init /\ [][Next]_vars

---------------------------------------------------------------------------
(* Vocabulary of the properties, stated on the record fields directly *)

Unmapped(flags) == (flags \div 4) % 2 = 1

Secondary(flags) == (flags \div 256) % 2 = 1

\* the item is a record with neither the unmapped nor the secondary bit
Passes(r) == r.ok /\ ~Unmapped(r.flags) /\ ~Secondary(r.flags)

\* the process died while the stream was being read
ExtractAborted == pc = "extract" /\ panic # ""

\* number of leading items that were processed without a fatal error
Processed == IF ExtractAborted THEN pos - 1 ELSE pos

\* the records among them that pass the filter, in stream order
KeptSoFar == SelectSeq(SubSeq(input, 1, Processed), Passes)

Unsigned(tag) == tag.type \in {"U8", "U16", "U32"}

RECURSIVE SumLens(_, _)
SumLens(cigar, kinds) ==
    IF cigar = << >> THEN 0
    ELSE (IF Head(cigar).kind \in kinds THEN Head(cigar).len ELSE 0)
         + SumLens(Tail(cigar), kinds)

RECURSIVE CountOps(_, _)
CountOps(cigar, kinds) ==
    IF cigar = << >> THEN 0
    ELSE (IF Head(cigar).kind \in kinds THEN 1 ELSE 0)
         + CountOps(Tail(cigar), kinds)

MatchesOf(r) == SumLens(r.cigar, {"Match", "Equal", "Diff"})

GapSizeOf(r) == SumLens(r.cigar, {"Ins", "Del"})

GapCountOf(r) == CountOps(r.cigar, {"Ins", "Del"})

\* 100 * (1 - (NM - gap_size + gap_count) / (matches + gap_count)) over the
\* integers, for matches + gap_count > 0
FormulaIdentity(r) ==
    Rat(100 * (MatchesOf(r) - r.nm.val + GapSizeOf(r)),
        MatchesOf(r) + GapCountOf(r))

\* the calculator is given the record at position i and panics
FatalAt(i) ==
    \/ ~input[i].ok
    \/ /\ Passes(input[i])
       /\ gap_compressed_identity(input[i], overflow_checks).panic

---------------------------------------------------------------------------
(* Properties *)

\* C1: a record contributes a row iff neither the unmapped nor the secondary
\* bit of its flags is set: at every point of the stream each of the four
\* sequences holds exactly one element per processed record with both bits
\* clear, whatever the other flag bits are.
C1_FilterDecides ==
    LET n == Len(KeptSoFar)
    IN  /\ Len(lengths) = n
        /\ Len(aligned_lengths) = n
        /\ Len(identities) = n
        /\ Len(mapqs) = n

\* a supplementary record was kept, a secondary and an unmapped one dropped
C1_Witness ==
    /\ pc = "done"
    /\ Len(input) = 3
    /\ input[1].ok /\ input[1].flags = 2048
    /\ input[2].ok /\ input[2].flags = 256
    /\ input[3].ok /\ input[3].flags = 4
    /\ Len(identities) = 1

C3_FastPath ==
    \A k \in 1..Len(identities) :
        KeptSoFar[k].de.type = "Float" =>
            identities[k] = Times100(OneMinus(KeptSoFar[k].de.val))

\* C4: a kept record without de tag and with an unsigned NM tag gets
\* identity 100 * (1 - (NM - gap_size + gap_count) / (matches + gap_count));
\* 8M 2I 5M 1D 10M with NM = 5 gives 84.
C4_Fallback ==
    \A k \in 1..Len(identities) :
        LET r == KeptSoFar[k]
        IN  /\ r.de.type = "none"
            /\ Unsigned(r.nm)
            /\ MatchesOf(r) + GapCountOf(r) > 0
            => /\ identities[k] = FormulaIdentity(r)
               /\ r.cigar = SampleCigar /\ r.nm.val = 5
                    => identities[k] = Rat(84, 1)

\* C5: on a kept record the calculator fails exactly when the de tag is
\* present and not a float, or the de tag is absent and the NM tag is
\* absent or not unsigned.
C5_FatalExactly ==
    \A i \in calls :
        LET r == input[i]
        IN  (ExtractAborted /\ pos = i)
            <=> \/ r.de.type \notin {"none", "Float"}
                \/ r.de.type = "none" /\ ~Unsigned(r.nm)

\* C6: every identity appended lies in [0, 100].
C6_Range ==
    \A k \in 1..Len(identities) : InRange(identities[k], 0, 100)

\* C7: for a kept record without de tag and with matches + gap_count = 0,
\* no NaN or infinite value is appended.
C7_DivisionByZero ==
    \A k \in 1..Len(identities) :
        LET r == KeptSoFar[k]
        IN  r.de.type = "none" /\ MatchesOf(r) + GapCountOf(r) = 0
            => IsFinite(identities[k])

\* C8: a fatal record aborts the run at that record: it is not skipped, no
\* later record is processed, and the output file is untouched; the file
\* exists only when every record was processed without a fatal error.
C8_FailFast ==
    /\ \A i \in 1..pos : FatalAt(i) => ExtractAborted /\ pos = i
    /\ ExtractAborted => FatalAt(pos)
    /\ pc = "extract" => file = Absent /\ batch = NoBatch
    /\ file # Absent => pos = Len(input) /\ pc # "extract"

\* the run died at the second of three records, after a row was accumulated
C8_Witness ==
    /\ ExtractAborted
    /\ Len(input) = 3
    /\ pos = 2
    /\ Len(identities) = 1
    /\ Passes(input[3])
    /\ file = Absent

\* C9: only records that pass the filter reach the calculator, so a run
\* never dies at an excluded record.
C9_FilterFirst ==
    /\ \A i \in calls : Passes(input[i])
    /\ ExtractAborted => ~input[pos].ok \/ Passes(input[pos])

\* excluded records the calculator would fail on, first and last in a
\* stream that ran to completion
C9_Witness ==
    /\ pc = "done"
    /\ Len(input) = 3
    /\ input[1].ok /\ ~Passes(input[1])
    /\ gap_compressed_identity(input[1], overflow_checks).panic
    /\ input[3].ok /\ ~Passes(input[3])
    /\ input[3].de.type = "Double"
    /\ Len(identities) = 1

\* C10: in the fallback no intermediate result leaves the unsigned range,
\* and the numerator is the mathematical value NM - gap_size + gap_count.
C10_NoWrap ==
    \A i \in calls :
        LET r == input[i]
            t == FallbackTerms(r)
        IN  r.de.type = "none" /\ Unsigned(r.nm)
            => /\ ~t.st.ovf
               /\ ~t.diff.ovf
               /\ ~t.numr.ovf
               /\ ~t.deno.ovf
               /\ t.numr.val = r.nm.val - GapSizeOf(r) + GapCountOf(r)

===========================================================================
